---- MODULE Spec2Model ----
(***************************************************************************)
(* BlockChainGrok (src/main.cpp): a Qt event-driven downloader.  main()    *)
(* posts one user event; MainObj::appEntry issues the first HTTP request;  *)
(* the reply's readyRead / error callbacks and the manager's finished      *)
(* callback drive the rest: parse the page, index its blocks, request the  *)
(* next page or compute the statistics, write two CSV files and exit.      *)
(***************************************************************************)
EXTENDS Integers, Sequences, FiniteSets, TLC

(* ---------------------------- bounds ---------------------------------- *)
\* largest number of array elements the server sends in one run, over all its
\* pages; also the largest day budget given on the command line (a page with
\* no element is fatal, so a longer run cannot complete)
MaxElems == 3
\* what QDateTime::currentMSecsSinceEpoch() may return (milliseconds); within
\* one run a reading is not smaller than the one before it
ClockReadings == {0, 1}

\* values the server may send
Heights == {1, 2}
Times == {0, 1, 3}
Hashes == {"a", "b"}
\* values an uninitialised int member may hold (MainObj has no initialiser
\* for daysLeft and nDupeTimes)
Indeterminate == {0, 7}

(* ------------------------ program constants --------------------------- *)
aday_ms == 86400000
msPerSec == 1000
mycutoff == 450
LONG_MAX == 2147483647

(* ------------------------------ state --------------------------------- *)
VARIABLES
    pc,                 \* "start" | "posted" | "loop" | "done"
    argNDays,           \* QString(argv[1]).toInt(), 0 when missing or not a number
    NDAYS,
    daysLeft, nDupeTimes, data,
    blocks, blocksByTime, blocksByTimeMulti,
    requests,           \* the GETs issued so far, in order: [ts], the anchor in the URL
    inflight,           \* replies issued and not yet finished (indices of requests)
    rx,                 \* bytes each in-flight reply has received so far
    received,           \* array elements the server has sent in this run
    clock,              \* last wall-clock reading
    fileA, fileB,       \* blocks_sorted_by_height.csv, blocks_sorted_by_timestamp.csv
    stats,              \* what printStatsAndExit computed
    exitCode,           \* <<>> while running, <<status>> once the process ended
    fatalMsg,           \* the diagnostic a Fatal printed, "" if none
    nDupeBlockLogs,     \* "Dupe block found" lines printed
    parsed,             \* pages whose processResults returned
    statsRuns           \* times printStatsAndExit was entered

vars == <<pc, argNDays, NDAYS, daysLeft, nDupeTimes, data, blocks, blocksByTime,
          blocksByTimeMulti, requests, inflight, rx, received, clock, fileA, fileB, stats,
          exitCode, fatalMsg, nDupeBlockLogs, parsed, statsRuns>>

NotExited == <<>>

Min(S) == CHOOSE x \in S : \A y \in S : x <= y
Max(S) == CHOOSE x \in S : \A y \in S : x >= y

(* --------------------------- JSON values ------------------------------ *)
Num(n) == <<"num", n>>
NotANumber == <<"str", 0>>

\* QVariant::toUInt(&ok) / QVariant::toLongLong(&ok)
toUInt(x) == IF x[1] = "num" /\ x[2] >= 0 THEN [val |-> x[2], ok |-> TRUE]
                                          ELSE [val |-> 0, ok |-> FALSE]
toLongLong(x) == IF x[1] = "num" THEN [val |-> x[2], ok |-> TRUE]
                                 ELSE [val |-> 0, ok |-> FALSE]

\* one element of the "blocks" array, as the server sends it
Element(isMap, h, t, hh, m) ==
    [isMap |-> isMap, height |-> h, time |-> t, hash |-> hh, main_chain |-> m]

NotAnObject == Element(FALSE, NotANumber, NotANumber, "", FALSE)

\* the main-chain blocks the server may send: every height at every time, and
\* a second hash for the lowest height at the earliest time
MainChainBlocks ==
    { b \in Heights \X Times \X Hashes :
        b[3] = "a" \/ (b[1] = Min(Heights) /\ b[2] = Min(Times)) }

MainChainElements ==
    { Element(TRUE, Num(b[1]), Num(b[2]), b[3], TRUE) : b \in MainChainBlocks }

Elements ==
    MainChainElements
    \cup { Element(TRUE, NotANumber, Num(0), "a", TRUE),
           Element(TRUE, Num(1), NotANumber, "a", TRUE),
           Element(TRUE, Num(1), Num(0), "orphan", FALSE),
           Element(TRUE, NotANumber, NotANumber, "orphan", FALSE),
           NotAnObject }

\* the response body is a sequence of tokens: one opening token that fixes
\* the shape of the document, then the elements of the blocks array
Tok(k, e) == [kind |-> k, el |-> e]
Openers == { Tok(k, NotAnObject) : k \in {"obj", "noblocks", "array", "garbage"} }
Tokens == Openers \cup { Tok("el", e) : e \in Elements }

RECURSIVE ElementsOf(_)
ElementsOf(s) == IF s = <<>> THEN <<>> ELSE <<Head(s).el>> \o ElementsOf(Tail(s))

\* QJsonDocument::fromJson
fromJson(bytes) ==
    LET bad == \/ bytes = <<>>
               \/ \E i \in 1..Len(bytes) : bytes[i].kind = "garbage"
               \/ \E i \in 2..Len(bytes) : bytes[i].kind # "el"
               \/ bytes # <<>> /\ bytes[1].kind = "el"
    IN  IF bad
        THEN [isNull |-> TRUE, isObject |-> FALSE, hasBlocks |-> FALSE, list |-> <<>>]
        ELSE [isNull |-> FALSE,
              isObject |-> bytes[1].kind # "array",
              hasBlocks |-> bytes[1].kind = "obj",
              list |-> IF bytes[1].kind = "obj" THEN ElementsOf(Tail(bytes)) ELSE <<>>]

(* ------------------------- ordered maps ------------------------------- *)
\* the keys of a QMap in iteration order
RECURSIVE Ascending(_)
Ascending(S) == IF S = {} THEN <<>> ELSE <<Min(S)>> \o Ascending(S \ {Min(S)})

\* range-for over a QMap: the values in ascending key order
Values(m) == LET ks == Ascending(DOMAIN m) IN [i \in 1..Len(ks) |-> m[ks[i]]]

\* QMap::first() / QMap::last()
first(m) == m[Min(DOMAIN m)]
last(m) == m[Max(DOMAIN m)]

\* QMap::operator[] used as an assignment target
\* an assignment that leaves the new key alone in the map
PutReplacingAll(m, k, v) == [x \in {k} |-> v]

Put(m, k, v) == [x \in (DOMAIN m) \cup {k} |-> IF x = k THEN v ELSE m[x]]

EmptyMap == [x \in {} |-> 0]

\* QMultiMap::insert: a new item goes in front of the items with the same key
MultiInsert(mm, b) ==
    LET n == Cardinality({i \in 1..Len(mm) : mm[i].time < b.time})
    IN  SubSeq(mm, 1, n) \o <<b>> \o SubSeq(mm, n + 1, Len(mm))

Block(h, hh, t) == [height |-> h, hash |-> hh, time |-> t]

(* --------------------------- Fatal / exit ----------------------------- *)
\* a Fatal that prints like Log and returns
FatalWithoutExit(st, msg) == [st EXCEPT !.fatalMsg = msg]

\* ~Fatal(): print the message, std::exit(1)
Fatal(st, msg) == [st EXCEPT !.fatalMsg = msg, !.exitCode = <<1>>]

\* the process is gone: nothing after the exit call runs
Exited(st) == st.exitCode # NotExited

(* ------------------------- processResults ----------------------------- *)
\* the same with the by-time index holding only the block inserted last
processElementForgetting(st, v) ==
    IF ~v.isMap THEN Fatal(st, "variantMap is empty")
    ELSE LET h == toUInt(v.height)
             t == toLongLong(v.time)
             b == Block(h.val, v.hash, t.val)
         IN  IF ~v.main_chain THEN st
             ELSE IF ~h.ok \/ ~t.ok THEN Fatal(st, "Parse error")
             ELSE [st EXCEPT
                     !.nDupeBlockLogs = IF b.height \in DOMAIN st.blocks THEN @ + 1 ELSE @,
                     !.nDupeTimes = IF b.time \in DOMAIN st.blocksByTime THEN @ + 1 ELSE @,
                     !.blocks = Put(@, b.height, b),
                     !.blocksByTime = Put(EmptyMap, b.time, b),
                     !.blocksByTimeMulti = MultiInsert(@, b)]

\* the same with an existing by-time entry kept instead of overwritten
processElementKeepingFirstTime(st, v) ==
    IF ~v.isMap THEN Fatal(st, "variantMap is empty")
    ELSE LET h == toUInt(v.height)
             t == toLongLong(v.time)
             b == Block(h.val, v.hash, t.val)
         IN  IF ~v.main_chain THEN st
             ELSE IF ~h.ok \/ ~t.ok THEN Fatal(st, "Parse error")
             ELSE [st EXCEPT
                     !.nDupeBlockLogs = IF b.height \in DOMAIN st.blocks THEN @ + 1 ELSE @,
                     !.nDupeTimes = IF b.time \in DOMAIN st.blocksByTime THEN @ + 1 ELSE @,
                     !.blocks = Put(@, b.height, b),
                     !.blocksByTime = IF b.time \in DOMAIN @ THEN @ ELSE Put(@, b.time, b),
                     !.blocksByTimeMulti = MultiInsert(@, b)]

\* the same with a height collision counted in nDupeTimes too
processElementCountingHeightDupes(st, v) ==
    IF ~v.isMap THEN Fatal(st, "variantMap is empty")
    ELSE LET h == toUInt(v.height)
             t == toLongLong(v.time)
             b == Block(h.val, v.hash, t.val)
         IN  IF ~v.main_chain THEN st
             ELSE IF ~h.ok \/ ~t.ok THEN Fatal(st, "Parse error")
             ELSE [st EXCEPT
                     !.nDupeBlockLogs = IF b.height \in DOMAIN st.blocks THEN @ + 1 ELSE @,
                     !.nDupeTimes = IF b.time \in DOMAIN st.blocksByTime
                                       \/ b.height \in DOMAIN st.blocks THEN @ + 1 ELSE @,
                     !.blocks = Put(@, b.height, b),
                     !.blocksByTime = Put(@, b.time, b),
                     !.blocksByTimeMulti = MultiInsert(@, b)]

\* the same with the parse check in front of the main_chain filter
processElementParseFirst(st, v) ==
    IF ~v.isMap THEN Fatal(st, "variantMap is empty")
    ELSE LET h == toUInt(v.height)
             t == toLongLong(v.time)
             b == Block(h.val, v.hash, t.val)
         IN  IF ~h.ok \/ ~t.ok THEN Fatal(st, "Parse error")
             ELSE IF ~v.main_chain THEN st
             ELSE [st EXCEPT
                     !.nDupeBlockLogs = IF b.height \in DOMAIN st.blocks THEN @ + 1 ELSE @,
                     !.nDupeTimes = IF b.time \in DOMAIN st.blocksByTime THEN @ + 1 ELSE @,
                     !.blocks = Put(@, b.height, b),
                     !.blocksByTime = Put(@, b.time, b),
                     !.blocksByTimeMulti = MultiInsert(@, b)]

\* the same with the by-time index keyed by the height
processElementKeyedByHeight(st, v) ==
    IF ~v.isMap THEN Fatal(st, "variantMap is empty")
    ELSE LET h == toUInt(v.height)
             t == toLongLong(v.time)
             b == Block(h.val, v.hash, t.val)
         IN  IF ~v.main_chain THEN st
             ELSE IF ~h.ok \/ ~t.ok THEN Fatal(st, "Parse error")
             ELSE [st EXCEPT
                     !.nDupeBlockLogs = IF b.height \in DOMAIN st.blocks THEN @ + 1 ELSE @,
                     !.nDupeTimes = IF b.time \in DOMAIN st.blocksByTime THEN @ + 1 ELSE @,
                     !.blocks = Put(@, b.height, b),
                     !.blocksByTime = Put(@, b.height, b),
                     !.blocksByTimeMulti = MultiInsert(@, b)]

processElement(st, v) ==
    IF ~v.isMap THEN Fatal(st, "variantMap is empty")
    ELSE LET h == toUInt(v.height)
             t == toLongLong(v.time)
             b == Block(h.val, v.hash, t.val)
         IN  IF ~v.main_chain THEN st
             ELSE IF ~h.ok \/ ~t.ok THEN Fatal(st, "Parse error")
             ELSE [st EXCEPT
                     !.nDupeBlockLogs = IF b.height \in DOMAIN st.blocks THEN @ + 1 ELSE @,
                     !.nDupeTimes = IF b.time \in DOMAIN st.blocksByTime THEN @ + 1 ELSE @,
                     !.blocks = Put(@, b.height, b),
                     !.blocksByTime = Put(@, b.time, b),
                     !.blocksByTimeMulti = MultiInsert(@, b)]

RECURSIVE processList(_, _)
processList(st, vl) ==
    IF vl = <<>> \/ Exited(st) THEN st
    ELSE processList(processElement(st, Head(vl)), Tail(vl))

\* the same with a page that adds no block treated like an empty array
processResultsRequiringMainChain(st, d) ==
    IF d.isObject
    THEN IF ~d.hasBlocks \/ d.list = <<>>
         THEN Fatal(st, "Blocks array not found")
         ELSE LET s1 == processList(st, d.list)
              IN  IF ~Exited(s1) /\ s1.blocksByTimeMulti = st.blocksByTimeMulti
                  THEN Fatal(s1, "Blocks array not found") ELSE s1
    ELSE Fatal(st, "Unknown Json type")

processResults(st, d) ==
    IF d.isObject
    THEN IF ~d.hasBlocks \/ d.list = <<>>
         THEN Fatal(st, "Blocks array not found")
         ELSE processList(st, d.list)
    ELSE Fatal(st, "Unknown Json type")

(* ------------------------------ getNext ------------------------------- *)
\* the same anchored at the latest block instead of the earliest
getNextFromLast(st, now) ==
    LET ts == IF DOMAIN st.blocksByTime # {}
              THEN last(st.blocksByTime).time * msPerSec - aday_ms
              ELSE now
        r == Len(st.requests) + 1
    IN  [st EXCEPT
           !.clock = now,
           !.nDupeTimes = IF DOMAIN st.blocksByTime # {} THEN @ ELSE 0,
           !.requests = Append(@, [ts |-> ts]),
           !.inflight = @ \cup {r},
           !.rx = Put(@, r, <<>>)]

\* the same with the duplicate counter reset at every request
getNextAlwaysResetting(st, now) ==
    LET ts == IF DOMAIN st.blocksByTime # {}
              THEN first(st.blocksByTime).time * msPerSec - aday_ms
              ELSE now
        r == Len(st.requests) + 1
    IN  [st EXCEPT
           !.clock = now,
           !.nDupeTimes = 0,
           !.requests = Append(@, [ts |-> ts]),
           !.inflight = @ \cup {r},
           !.rx = Put(@, r, <<>>)]

\* now: what QDateTime::currentMSecsSinceEpoch() returns
getNext(st, now) ==
    LET ts == IF DOMAIN st.blocksByTime # {}
              THEN first(st.blocksByTime).time * msPerSec - aday_ms
              ELSE now
        r == Len(st.requests) + 1
    IN  [st EXCEPT
           !.clock = now,
           !.nDupeTimes = IF DOMAIN st.blocksByTime # {} THEN @ ELSE 0,
           !.requests = Append(@, [ts |-> ts]),
           !.inflight = @ \cup {r},
           !.rx = Put(@, r, <<>>)]

(* ------------------------------ saveCsv ------------------------------- *)
NoFile == [written |-> FALSE, header |-> "", rows |-> <<>>]

\* a height row with its first two fields exchanged
RowATimeFirst(b) == <<b.time, b.height, b.hash>>

\* sprintf("%d,%lld,%s\n", b.height, b.time, hash) and
\* sprintf("%lld,%d,%s\n", b.time, b.height, hash): the fields of a row, in order
RowA(b) == <<b.height, b.time, b.hash>>
RowB(b) == <<b.time, b.height, b.hash>>

RowsA(st) == LET vs == Values(st.blocks) IN [i \in 1..Len(vs) |-> RowA(vs[i])]
RowsB(st) == LET vs == Values(st.blocks) IN [i \in 1..Len(vs) |-> RowB(vs[i])]

\* the same without the two checks of open()
saveCsvUnchecked(st, okA, okB) ==
    LET s2 == IF ~okA THEN st
              ELSE [st EXCEPT !.fileA = [written |-> TRUE,
                                         header |-> "#BlockHeight,BlockTimeUTC,BlockHash",
                                         rows |-> RowsA(st)]]
    IN  IF ~okB THEN s2
        ELSE [s2 EXCEPT !.fileB = [written |-> TRUE,
                                   header |-> "#BlockTimeUTC,BlockHeight,BlockHash",
                                   rows |-> RowsB(s2)]]

\* okA, okB: whether QFile::open succeeds for each file
saveCsv(st, okA, okB) ==
    LET s1 == IF ~okA THEN Fatal(st, "Could not open blocks_sorted_by_height.csv") ELSE st
        s2 == IF Exited(s1) \/ ~okA THEN s1
              ELSE [s1 EXCEPT !.fileA = [written |-> TRUE,
                                         header |-> "#BlockHeight,BlockTimeUTC,BlockHash",
                                         rows |-> RowsA(s1)]]
        s3 == IF Exited(s2) THEN s2
              ELSE IF ~okB THEN Fatal(s2, "Could not open blocks_sorted_by_timestamp.csv")
              ELSE s2
        s4 == IF Exited(s3) \/ ~okB THEN s3
              ELSE [s3 EXCEPT !.fileB = [written |-> TRUE,
                                         header |-> "#BlockTimeUTC,BlockHeight,BlockHash",
                                         rows |-> RowsB(s3)]]
    IN  s4

(* ------------------------- printStatsAndExit -------------------------- *)
NoStats == [done |-> FALSE, nBlocks |-> 0, span |-> 0, avgNum |-> 0, avgDen |-> 1,
            min |-> 0, max |-> 0, cutoffdeltasums |-> 0, nsums |-> 0]

\* one iteration of the loop over blocksByTime; a.fatal: a negative delta was seen
\* the same with 0, not -1, standing for "no block seen yet"
statsStepZeroSentinel(a, b) ==
    IF a.last > 0
    THEN LET delta == b.time - a.last
         IN  IF delta < 0
             THEN [a EXCEPT !.fatal = TRUE]
             ELSE [a EXCEPT
                     !.avgNum = @ + delta,
                     !.min = IF delta < @ THEN delta ELSE @,
                     !.max = IF delta > @ THEN delta ELSE @,
                     !.cutoffdeltasums = IF delta >= mycutoff THEN @ + (delta - mycutoff) ELSE @,
                     !.nsums = IF delta >= mycutoff THEN @ + 1 ELSE @,
                     !.last = b.time]
    ELSE [a EXCEPT !.last = b.time]

\* the same with the comparison for max turned round
statsStepMaxReversed(a, b) ==
    IF a.last > -1
    THEN LET delta == b.time - a.last
         IN  IF delta < 0
             THEN [a EXCEPT !.fatal = TRUE]
             ELSE [a EXCEPT
                     !.avgNum = @ + delta,
                     !.min = IF delta < @ THEN delta ELSE @,
                     !.max = IF delta < @ THEN delta ELSE @,
                     !.cutoffdeltasums = IF delta >= mycutoff THEN @ + (delta - mycutoff) ELSE @,
                     !.nsums = IF delta >= mycutoff THEN @ + 1 ELSE @,
                     !.last = b.time]
    ELSE [a EXCEPT !.last = b.time]

statsStep(a, b) ==
    IF a.last > -1
    THEN LET delta == b.time - a.last
         IN  IF delta < 0
             THEN [a EXCEPT !.fatal = TRUE]
             ELSE [a EXCEPT
                     !.avgNum = @ + delta,
                     !.min = IF delta < @ THEN delta ELSE @,
                     !.max = IF delta > @ THEN delta ELSE @,
                     !.cutoffdeltasums = IF delta >= mycutoff THEN @ + (delta - mycutoff) ELSE @,
                     !.nsums = IF delta >= mycutoff THEN @ + 1 ELSE @,
                     !.last = b.time]
    ELSE [a EXCEPT !.last = b.time]

RECURSIVE statsLoop(_, _)
statsLoop(a, bs) ==
    IF bs = <<>> \/ a.fatal THEN a ELSE statsLoop(statsStep(a, Head(bs)), Tail(bs))

\* avg is kept as the fraction avgNum / avgDen: every delta is divided by the
\* same nBlocks (or 1)
printStatsAndExit(st, okA, okB) ==
    LET s0 == [st EXCEPT !.statsRuns = @ + 1]
        nBlocks == Cardinality(DOMAIN s0.blocksByTime) + s0.nDupeTimes
        span == IF DOMAIN s0.blocksByTime = {} THEN 0
                ELSE last(s0.blocksByTime).time - first(s0.blocksByTime).time
        a0 == [last |-> -1, min |-> IF s0.nDupeTimes # 0 THEN 0 ELSE LONG_MAX, max |-> -1,
               avgNum |-> 0, cutoffdeltasums |-> 0, nsums |-> 0, fatal |-> FALSE]
        a == statsLoop(a0, Values(s0.blocksByTime))
        s1 == IF a.fatal THEN Fatal(s0, "Block delta negative! Aborting!") ELSE s0
        s2 == IF Exited(s1) THEN s1
              ELSE [s1 EXCEPT !.stats = [done |-> TRUE, nBlocks |-> nBlocks, span |-> span,
                                          avgNum |-> a.avgNum,
                                          avgDen |-> IF nBlocks > 0 THEN nBlocks ELSE 1,
                                          min |-> a.min, max |-> a.max,
                                          cutoffdeltasums |-> a.cutoffdeltasums,
                                          nsums |-> a.nsums]]
        s3 == IF Exited(s2) THEN s2 ELSE saveCsv(s2, okA, okB)
    IN  IF Exited(s3) THEN s3 ELSE [s3 EXCEPT !.exitCode = <<0>>]

(* ------------------------------ finished ------------------------------ *)
\* the same with the files saved after every page
nextPageOrStatsSavingEachPage(st, now, okA, okB) ==
    LET s1 == [st EXCEPT !.daysLeft = @ - 1]
        s2 == saveCsv(s1, okA, okB)
    IN  IF Exited(s2) THEN s2
        ELSE IF s2.daysLeft > 0 THEN getNext(s2, now) ELSE printStatsAndExit(s2, okA, okB)

\* the same with the counter tested before it is decremented
nextPageOrStatsPostDecrement(st, now, okA, okB) ==
    LET s1 == [st EXCEPT !.daysLeft = @ - 1]
    IN  IF st.daysLeft > 0 THEN getNext(s1, now) ELSE printStatsAndExit(s1, okA, okB)

\* if (--daysLeft > 0) getNext(); else printStatsAndExit();
\* the same with nothing done when the day budget is used up
nextPageOrStatsForgettingStats(st, now, okA, okB) ==
    LET s1 == [st EXCEPT !.daysLeft = @ - 1]
    IN  IF s1.daysLeft > 0 THEN getNext(s1, now) ELSE s1

nextPageOrStats(st, now, okA, okB) ==
    LET s1 == [st EXCEPT !.daysLeft = @ - 1]
    IN  IF s1.daysLeft > 0 THEN getNext(s1, now) ELSE printStatsAndExit(s1, okA, okB)

\* the same without data.clear()
finishedKeepingBuffer(st, r, tail, now, okA, okB) ==
    LET s1 == [st EXCEPT !.data = @ \o tail]
        d == fromJson(s1.data)
        s2 == IF d.isNull THEN Fatal(s1, "error parsing JSON") ELSE s1
        s3 == IF Exited(s2) \/ d.isNull THEN s2 ELSE processResults(s2, d)
        s4 == [s3 EXCEPT !.inflight = @ \ {r},
                         !.parsed = @ + 1]
    IN  IF Exited(s3) THEN s3 ELSE nextPageOrStats(s4, now, okA, okB)

\* r: the reply that finished; tail: what its last readAll() returns
finished(st, r, tail, now, okA, okB) ==
    LET s1 == [st EXCEPT !.data = @ \o tail]
        d == fromJson(s1.data)
        s2 == IF d.isNull THEN Fatal(s1, "error parsing JSON") ELSE s1
        s3 == IF Exited(s2) \/ d.isNull THEN s2 ELSE processResults(s2, d)
        s4 == [s3 EXCEPT !.data = <<>>,
                         !.inflight = @ \ {r},
                         !.parsed = @ + 1]
    IN  IF Exited(s3) THEN s3 ELSE nextPageOrStats(s4, now, okA, okB)

(* ------------------------------ appEntry ------------------------------ *)
\* an entry that requests the first two pages at once
appEntryTwoRequests(st, now) ==
    getNext(getNext([st EXCEPT !.daysLeft = st.NDAYS], now), now)

appEntry(st, now) == getNext([st EXCEPT !.daysLeft = st.NDAYS], now)

(* --------------------------- the state machine ------------------------ *)
\* the members of MainObj and the process's surroundings, as one record
Now == [NDAYS |-> NDAYS, daysLeft |-> daysLeft, nDupeTimes |-> nDupeTimes, data |-> data,
        blocks |-> blocks, blocksByTime |-> blocksByTime,
        blocksByTimeMulti |-> blocksByTimeMulti, requests |-> requests,
        inflight |-> inflight, rx |-> rx, received |-> received, clock |-> clock, fileA |-> fileA,
        fileB |-> fileB, stats |-> stats, exitCode |-> exitCode, fatalMsg |-> fatalMsg,
        nDupeBlockLogs |-> nDupeBlockLogs, parsed |-> parsed, statsRuns |-> statsRuns]

Becomes(st) ==
    /\ NDAYS' = st.NDAYS
    /\ daysLeft' = st.daysLeft
    /\ nDupeTimes' = st.nDupeTimes
    /\ data' = st.data
    /\ blocks' = st.blocks
    /\ blocksByTime' = st.blocksByTime
    /\ blocksByTimeMulti' = st.blocksByTimeMulti
    /\ requests' = st.requests
    /\ inflight' = st.inflight
    /\ rx' = [r \in st.inflight |-> st.rx[r]]
    /\ received' = st.received
    /\ clock' = st.clock
    /\ fileA' = st.fileA
    /\ fileB' = st.fileB
    /\ stats' = st.stats
    /\ exitCode' = st.exitCode
    /\ fatalMsg' = st.fatalMsg
    /\ nDupeBlockLogs' = st.nDupeBlockLogs
    /\ parsed' = st.parsed
    /\ statsRuns' = st.statsRuns
    /\ pc' = IF Exited(st) THEN "done" ELSE "loop"
    /\ UNCHANGED argNDays

Init ==
    /\ pc = "start"
    /\ argNDays \in -1..MaxElems
    /\ NDAYS = 0
    /\ daysLeft \in Indeterminate
    /\ nDupeTimes \in Indeterminate
    /\ data = <<>>
    /\ blocks = EmptyMap
    /\ blocksByTime = EmptyMap
    /\ blocksByTimeMulti = <<>>
    /\ requests = <<>>
    /\ inflight = {}
    /\ rx = EmptyMap
    /\ received = 0
    /\ clock = 0
    /\ fileA = NoFile
    /\ fileB = NoFile
    /\ stats = NoStats
    /\ exitCode = NotExited
    /\ fatalMsg = ""
    /\ nDupeBlockLogs = 0
    /\ parsed = 0
    /\ statsRuns = 0

\* main(): check the argument, construct MainObj, post the user event
Main ==
    /\ pc = "start"
    /\ IF argNDays <= 0
       THEN /\ exitCode' = <<1>>
            /\ pc' = "done"
            /\ UNCHANGED NDAYS
       ELSE /\ NDAYS' = argNDays
            /\ pc' = "posted"
            /\ UNCHANGED exitCode
    /\ UNCHANGED <<argNDays, daysLeft, nDupeTimes, data, blocks, blocksByTime,
                   blocksByTimeMulti, requests, inflight, rx, received, clock, fileA,
                   fileB, stats, fatalMsg, nDupeBlockLogs, parsed, statsRuns>>

\* MainObj::event: the user event is delivered, appEntry runs
AppEntry ==
    /\ pc = "posted"
    /\ \E now \in {c \in ClockReadings : c >= clock} : Becomes(appEntry(Now, now))

\* what the server may send after the bytes sent so far: an opening token,
\* then elements while the body is an object with a blocks array and has room
MaySend(sent, t) ==
    IF sent = <<>> THEN t \in Openers
                   ELSE sent[1].kind = "obj" /\ t.kind = "el" /\ received < MaxElems

\* the network layer appends chunk to what reply r has received
Arrive(st, r, chunk) ==
    [st EXCEPT !.rx = Put(@, r, @[r] \o chunk),
               !.received = @ + Cardinality({i \in 1..Len(chunk) : chunk[i].kind = "el"})]

\* the readyRead lambda of reply r: more of the body has arrived
ReadyRead ==
    /\ pc = "loop"
    /\ \E r \in inflight, t \in Tokens :
         /\ MaySend(rx[r], t)
         /\ Becomes([Arrive(Now, r, <<t>>) EXCEPT !.data = Append(@, t)])

\* the error lambda of reply r
NetworkError ==
    /\ pc = "loop"
    /\ \E r \in inflight : Becomes(Fatal(Now, "Got network error code"))

\* the finished lambda: reply r is complete
Finished ==
    /\ pc = "loop"
    /\ \E r \in inflight, tail \in {<<>>} \cup {<<t>> : t \in Tokens},
          now \in IF daysLeft > 1 THEN {c \in ClockReadings : c >= clock} ELSE {clock},
          okA \in IF daysLeft > 1 THEN {TRUE} ELSE BOOLEAN,
          okB \in IF daysLeft > 1 THEN {TRUE} ELSE BOOLEAN :
         /\ tail # <<>> => MaySend(rx[r], tail[1])
         /\ Becomes(finished(Arrive(Now, r, tail), r, tail, now, okA, okB))

Next == Main \/ AppEntry \/ ReadyRead \/ NetworkError \/ Finished

Spec == Init /\ [][Next]_vars

\* The same program under a scheduler and a network that do their part: main
\* runs, the event loop of app.exec() delivers the posted appEntry, and every
\* reply in flight ends with finished or with an error.  Nothing is assumed
\* of readyRead.
FairSpec ==
    /\ Spec
    /\ WF_vars(Main) /\ WF_vars(AppEntry)
    /\ WF_vars(NetworkError \/ Finished)

(* ------------------------------ claims -------------------------------- *)

\* C1: a run with day budget N issues exactly N page requests: when page k has
\* been parsed, page k+1 is requested if k < N, otherwise the statistics step
\* runs, once, and no request is issued after it.
C1_Inv ==
    /\ Len(requests) <= NDAYS
    /\ statsRuns <= 1
    /\ exitCode = <<0>> => Len(requests) = NDAYS /\ parsed = NDAYS /\ statsRuns = 1
C1_Step ==
    /\ parsed' = parsed + 1 =>
          IF parsed' < NDAYS
          THEN Len(requests') = Len(requests) + 1 /\ statsRuns' = 0
          ELSE requests' = requests /\ statsRuns' = 1
    /\ Len(requests') > Len(requests) => Len(requests) = 0 \/ parsed' = parsed + 1
    /\ statsRuns >= 1 => requests' = requests /\ statsRuns' = statsRuns
C1_ExactlyNRequests == []C1_Inv /\ [][C1_Step]_vars
C1_Witness == exitCode = <<0>> /\ NDAYS = 3 /\ Len(requests) = 3 /\ statsRuns = 1

\* C2: at most one request is in flight, a request is issued only when every
\* earlier page has been parsed, and the page a completion parses is the one
\* requested last.
C2_Inv ==
    /\ Cardinality(inflight) <= 1
    /\ Len(requests) <= parsed + 1
C2_Step ==
    /\ parsed' = parsed + 1 => inflight = {parsed'} /\ parsed' \notin inflight'
    /\ Len(requests') > Len(requests) =>
          parsed' = Len(requests) /\ inflight' = {Len(requests')}
C2_OneRequestInOrder == []C2_Inv /\ [][C2_Step]_vars
C2_Witness == parsed = 2 /\ inflight = {3} /\ Len(data) = 2

\* the request issued in this step, if one is
Issued == Len(requests') = Len(requests) + 1
NewAnchor == requests'[Len(requests')].ts

\* C3 (as stated): page 1 is anchored at the wall-clock reading, and every later
\* page at (earliest time in the by-time index after the page just parsed)
\* * 1000 - 86,400,000.
C3_AnchorAlwaysFromIndex ==
    [][Issued =>
         IF Len(requests) = 0
         THEN NewAnchor = clock'
         ELSE /\ DOMAIN blocksByTime' # {}
              /\ NewAnchor = Min(DOMAIN blocksByTime') * 1000 - 86400000]_vars

\* C3 (amended): page 1 is anchored at the wall-clock reading; a later page is
\* anchored at (earliest time in the by-time index) * 1000 - 86,400,000 when the
\* index is non-empty after the page just parsed, and at the wall-clock
\* reading when it is empty.
C3_AnchorFromIndexOrClock ==
    [][Issued =>
         IF Len(requests) = 0 \/ DOMAIN blocksByTime' = {}
         THEN NewAnchor = clock'
         ELSE NewAnchor = Min(DOMAIN blocksByTime') * 1000 - 86400000]_vars
C3_Witness ==
    /\ Len(requests) = 2 /\ parsed = 1
    /\ Cardinality(DOMAIN blocksByTime) = 2
    /\ requests[2].ts = Min(DOMAIN blocksByTime) * 1000 - 86400000

\* C4 (as stated): the anchor of every request is strictly smaller than the
\* anchor of the request before it.
C4_AnchorsStrictlyDecrease ==
    [][Issued /\ Len(requests) >= 1 => NewAnchor < requests[Len(requests)].ts]_vars

\* C4 (amended): once a request has been anchored at the index, anchors never
\* increase: a request issued when the by-time index was already non-empty at
\* the previous request has an anchor no larger than the previous one, and a
\* strictly smaller one exactly when the page just parsed lowered the earliest
\* time in the index.
C4_AnchorsNeverIncrease ==
    [][Issued /\ DOMAIN blocksByTime # {} =>
         /\ NewAnchor <= requests[Len(requests)].ts
         /\ NewAnchor < requests[Len(requests)].ts
               <=> Min(DOMAIN blocksByTime') < Min(DOMAIN blocksByTime)]_vars
C4_Witness ==
    /\ Len(requests) = 3 /\ parsed = 2
    /\ requests[3].ts < requests[2].ts
    /\ requests[2].ts = Max(Times) * 1000 - 86400000

\* C5: each error kind ends the process with status 1 where it is detected:
\* the step that prints a fatal diagnostic issues no request (no retry, no
\* later page) and runs no later step of the pipeline: a transport or
\* document error indexes nothing, an element error indexes only the
\* main-chain elements in front of the bad element, none of them completes the
\* page, computes the statistics afterwards or writes a file afterwards; and
\* nothing happens after the exit.
ParseMsgs == {"variantMap is empty", "Parse error"}
DocMsgs == {"Got network error code", "error parsing JSON", "Unknown Json type",
            "Blocks array not found"}
OpenMsgs == {"Could not open blocks_sorted_by_height.csv",
             "Could not open blocks_sorted_by_timestamp.csv"}
StatsMsgs == {"Block delta negative! Aborting!"}
IsBadElement(v) ==
    \/ ~v.isMap
    \/ v.main_chain /\ (v.height[1] # "num" \/ v.time[1] # "num")
\* the main-chain elements in front of the first bad element of the page in data
GoodPrefixCount(bytes) ==
    LET firstBad == Min({i \in 2..Len(bytes) : IsBadElement(bytes[i].el)})
    IN  Cardinality({j \in 2..(firstBad - 1) : bytes[j].el.main_chain})
C5_Step ==
    /\ fatalMsg' # fatalMsg =>
          /\ fatalMsg = ""
          /\ exitCode' = <<1>>
          /\ requests' = requests
          /\ fatalMsg' \in ParseMsgs \cup DocMsgs \cup StatsMsgs \cup OpenMsgs
          /\ fatalMsg' \in StatsMsgs => stats' = stats /\ fileA' = fileA /\ fileB' = fileB
          /\ fatalMsg' \in DocMsgs =>
                /\ blocks' = blocks /\ blocksByTime' = blocksByTime
                /\ blocksByTimeMulti' = blocksByTimeMulti /\ nDupeTimes' = nDupeTimes
          /\ fatalMsg' \in ParseMsgs =>
                Len(blocksByTimeMulti') - Len(blocksByTimeMulti) = GoodPrefixCount(data')
          /\ fatalMsg' \in ParseMsgs \cup DocMsgs =>
                /\ parsed' = parsed /\ statsRuns' = statsRuns /\ stats' = stats
                /\ fileA' = fileA /\ fileB' = fileB
          /\ fatalMsg' = "Could not open blocks_sorted_by_height.csv" =>
                fileA' = fileA /\ fileB' = fileB
          /\ fatalMsg' = "Could not open blocks_sorted_by_timestamp.csv" =>
                fileB' = fileB
    /\ exitCode # NotExited => UNCHANGED vars
C5_FatalStopsEverything == [][C5_Step]_vars
C5_Witness ==
    /\ fatalMsg = "Parse error" /\ exitCode = <<1>>
    /\ Len(data) = 3 /\ Len(blocksByTimeMulti) = 2 /\ parsed = 1

\* what full success means: every page fetched and parsed, the statistics
\* computed, both files written
FullSuccess ==
    /\ NDAYS >= 1 /\ Len(requests) = NDAYS /\ parsed = NDAYS
    /\ stats.done /\ fileA.written /\ fileB.written

\* C6: the exit status is 0 exactly when the run ends in full success, and 1
\* in every other run that ends.
C6_ExitZeroOnlyOnSuccess ==
    /\ exitCode \in {NotExited, <<0>>, <<1>>}
    /\ pc = "done" <=> exitCode # NotExited
    /\ exitCode = <<0>> => FullSuccess /\ fatalMsg = ""
    /\ exitCode = <<1>> => ~FullSuccess
C6_Witness == exitCode = <<0>> /\ NDAYS = 2 /\ Len(fileA.rows) = 2 /\ fileB.written

WrittenOnlyAtTheEnd ==
    fileA.written \/ fileB.written => parsed = NDAYS /\ stats.done

\* C7 (as stated): files are written only after all pages are parsed and the
\* statistics succeeded, and a run that ends with a fatal error has written
\* neither file.
C7_NoFileInFailedRun ==
    /\ WrittenOnlyAtTheEnd
    /\ exitCode = <<1>> => ~fileA.written /\ ~fileB.written

\* C7 (amended): files are written only after all pages are parsed and the
\* statistics succeeded; a run that ends with a fatal error has not written
\* blocks_sorted_by_timestamp.csv, and has written blocks_sorted_by_height.csv
\* only when the fatal error is the failure to open the timestamp file, which
\* is opened after the height file is complete.
C7_NoFileUnlessSecondOpenFails ==
    /\ WrittenOnlyAtTheEnd
    /\ exitCode = <<1>> =>
          /\ ~fileB.written
          /\ fileA.written => fatalMsg = "Could not open blocks_sorted_by_timestamp.csv"
C7_Witness ==
    /\ exitCode = <<1>> /\ fileA.written /\ ~fileB.written
    /\ Len(fileA.rows) = 2 /\ parsed = 2

\* rows i < j of a file are in strictly ascending order of their first field
AscendingRows(rows) ==
    \A i, j \in 1..Len(rows) : i < j => rows[i][1] < rows[j][1]

\* C8: file B holds, after its header, one row <time, height, hash> per entry
\* of the by-time index, in ascending time order.
C8_FileBFollowsTimeIndex ==
    fileB.written =>
       /\ fileB.header = "#BlockTimeUTC,BlockHeight,BlockHash"
       /\ Len(fileB.rows) = Cardinality(DOMAIN blocksByTime)
       /\ AscendingRows(fileB.rows)
       /\ \A i \in 1..Len(fileB.rows) :
             LET t == fileB.rows[i][1]
             IN  /\ t \in DOMAIN blocksByTime
                 /\ fileB.rows[i] = <<t, blocksByTime[t].height, blocksByTime[t].hash>>

\* C9: file A holds, after its header, one row <height, time, hash> per entry
\* of the by-height index, in ascending height order, each row with the time
\* and hash of the block stored at that height.
C9_FileAFollowsHeightIndex ==
    fileA.written =>
       /\ fileA.header = "#BlockHeight,BlockTimeUTC,BlockHash"
       /\ Len(fileA.rows) = Cardinality(DOMAIN blocks)
       /\ AscendingRows(fileA.rows)
       /\ \A i \in 1..Len(fileA.rows) :
             LET h == fileA.rows[i][1]
             IN  /\ h \in DOMAIN blocks
                 /\ fileA.rows[i] = <<h, blocks[h].time, blocks[h].hash>>
C9_Witness ==
    /\ fileA.written /\ Len(fileA.rows) = 2 /\ nDupeBlockLogs = 1
    /\ fileA.rows[1][2] > fileA.rows[2][2]

\* the blocks indexed so far, each distinct block once
DistinctBlocks == { blocksByTimeMulti[i] : i \in 1..Len(blocksByTimeMulti) }

\* C10 (as stated): size(by-time index) + duplicate counter is the number of
\* distinct main-chain blocks received so far.
C10_TotalCountsDistinctBlocks ==
    Len(requests) >= 1 =>
       Cardinality(DOMAIN blocksByTime) + nDupeTimes = Cardinality(DistinctBlocks)

\* C10 (amended): size(by-time index) + duplicate counter is the number of
\* main-chain records indexed so far, a block that is delivered again counted
\* again.
C10_TotalCountsRecords ==
    Len(requests) >= 1 =>
       Cardinality(DOMAIN blocksByTime) + nDupeTimes = Len(blocksByTimeMulti)
C10_Witness ==
    /\ parsed = 2 /\ nDupeTimes = 1 /\ Cardinality(DOMAIN blocksByTime) = 2
    /\ Cardinality(DistinctBlocks) = 3

\* A step that parses a whole page whose bytes were all in the buffer before
\* the completion (the last readAll() returned nothing): the page is in data.
PageParsed == parsed' = parsed + 1 /\ received' = received
\* the main-chain records of that page, in the order they are processed
PageRecords ==
    LET idx == {i \in 2..Len(data) : data[i].el.main_chain}
        pos == Ascending(idx)
    IN  [k \in 1..Len(pos) |->
            Block(data[pos[k]].el.height[2], data[pos[k]].el.hash, data[pos[k]].el.time[2])]
\* the record of the page processed last among those with time t / height h
LastAtTime(recs, t) == recs[Max({k \in 1..Len(recs) : recs[k].time = t})]
LastAtHeight(recs, h) == recs[Max({k \in 1..Len(recs) : recs[k].height = h})]
PageTimes == { PageRecords[k].time : k \in 1..Len(PageRecords) }
PageHeights == { PageRecords[k].height : k \in 1..Len(PageRecords) }

\* C11: a main-chain record whose time is already a key of the by-time index
\* replaces the entry at that time, adds exactly 1 to the duplicate counter
\* and leaves the size of the index; a record whose time is no key yet leaves
\* the counter and adds 1 to the size.  Over a page: every time of the page
\* ends with the record processed last at that time, the size grows by the
\* number of times that were no key, the counter by the number of the other
\* records, and the entries at other times stay.
C11_Step ==
    PageParsed =>
       LET recs == PageRecords
           newTimes == PageTimes \ DOMAIN blocksByTime
       IN  /\ \A t \in PageTimes : blocksByTime'[t] = LastAtTime(recs, t)
           /\ \A t \in DOMAIN blocksByTime \ PageTimes : blocksByTime'[t] = blocksByTime[t]
           /\ Cardinality(DOMAIN blocksByTime') =
                 Cardinality(DOMAIN blocksByTime) + Cardinality(newTimes)
           /\ nDupeTimes' = nDupeTimes + Len(recs) - Cardinality(newTimes)
C11_TimeCollisionCounted == [][C11_Step]_vars
C11_Witness ==
    /\ nDupeTimes = 1 /\ Len(blocksByTimeMulti) = 2 /\ parsed = 2
    /\ blocksByTimeMulti[1].time = blocksByTimeMulti[2].time
    /\ blocksByTimeMulti[1].height # blocksByTimeMulti[2].height
    /\ blocksByTime[blocksByTimeMulti[1].time] = blocksByTimeMulti[1]

\* C12: of two main-chain records with one height the by-height index keeps
\* one entry, the record processed later; the duplicate-height diagnostic is
\* printed once for the collision; the collision does not change the
\* duplicate-timestamp counter.  Over a page: every height of the page ends
\* with the record processed last at that height, one diagnostic is printed
\* for every record whose height was a key when it was processed, and the
\* counter moves by the time collisions only.
C12_Step ==
    PageParsed =>
       LET recs == PageRecords
           newHeights == PageHeights \ DOMAIN blocks
           newTimes == PageTimes \ DOMAIN blocksByTime
       IN  /\ \A h \in PageHeights : blocks'[h] = LastAtHeight(recs, h)
           /\ \A h \in DOMAIN blocks \ PageHeights : blocks'[h] = blocks[h]
           /\ DOMAIN blocks' = DOMAIN blocks \cup PageHeights
           /\ nDupeBlockLogs' = nDupeBlockLogs + Len(recs) - Cardinality(newHeights)
           /\ Cardinality(newTimes) = Len(recs) => nDupeTimes' = nDupeTimes
C12_HeightCollisionOverwrites == [][C12_Step]_vars
C12_Witness ==
    /\ nDupeBlockLogs = 1 /\ nDupeTimes = 0 /\ Len(blocksByTimeMulti) = 2
    /\ Cardinality(DOMAIN blocks) = 1 /\ Cardinality(DOMAIN blocksByTime) = 2
    /\ blocksByTimeMulti[1].hash # blocksByTimeMulti[2].hash

\* the blocks the main-chain records of the server stand for
MainChainStored == { Block(b[1], b[3], b[2]) : b \in MainChainBlocks }
C13_Inv ==
    /\ \A h \in DOMAIN blocks : blocks[h] \in MainChainStored
    /\ \A t \in DOMAIN blocksByTime : blocksByTime[t] \in MainChainStored
    /\ \A i \in 1..Len(blocksByTimeMulti) : blocksByTimeMulti[i] \in MainChainStored
C13_Step ==
    /\ PageParsed =>
          /\ Len(blocksByTimeMulti') = Len(blocksByTimeMulti) + Len(PageRecords)
          /\ Len(PageRecords) = 0 =>
                /\ blocks' = blocks /\ blocksByTime' = blocksByTime
                /\ blocksByTimeMulti' = blocksByTimeMulti
                /\ nDupeTimes' = nDupeTimes /\ nDupeBlockLogs' = nDupeBlockLogs
    /\ fatalMsg' # fatalMsg /\ fatalMsg' \in ParseMsgs =>
          \E i \in 2..Len(data') : IsBadElement(data'[i].el)
\* C13: every block held in the by-height, the by-time and the multi index
\* stands for a record with main_chain true; a record with main_chain false
\* changes no index and no counter, and no fatal error is raised for it, its
\* height and time parsable or not.
C13_OnlyMainChainStored == []C13_Inv /\ [][C13_Step]_vars
C13_Witness ==
    /\ parsed = 2 /\ received = 3 /\ Len(blocksByTimeMulti) = 1
    /\ exitCode = NotExited

\* a page in the buffer that holds records with main_chain false only
OrphanPage ==
    /\ Len(data) >= 2 /\ data[1].kind = "obj"
    /\ \A i \in 2..Len(data) : data[i].el.isMap /\ ~data[i].el.main_chain
\* the completion of a reply whose bytes have all been read before
CompletesBufferedPage ==
    /\ received' = received /\ vars' # vars
    /\ fatalMsg' # "Got network error code"
C14_Step ==
    /\ OrphanPage /\ CompletesBufferedPage =>
          /\ parsed' = parsed + 1
          /\ blocks' = blocks /\ blocksByTime' = blocksByTime
          /\ blocksByTimeMulti' = blocksByTimeMulti
          /\ fatalMsg' \in {""} \cup OpenMsgs
          /\ parsed' < NDAYS => Issued /\ exitCode' = NotExited /\ ~stats'.done
          /\ parsed' = NDAYS =>
                /\ stats'.done /\ statsRuns' = 1
                /\ fatalMsg' = "" =>
                      exitCode' = <<0>> /\ fileA'.written /\ fileB'.written
    /\ fatalMsg' # fatalMsg /\ fatalMsg' = "Blocks array not found" =>
          Len(data') = 1 /\ data'[1].kind \in {"obj", "noblocks"}
\* C14: a run whose pages all hold a non-empty blocks array of records with
\* main_chain false is not fatal: each such page is parsed, leaves the indexes
\* as they are (empty), is followed by the next request, and after the last
\* one the statistics and the export run and the exit status is 0 (both files
\* opening); the blocks array is fatal only when it is absent or empty.
C14_OrphanPagesAreNotFatal == [][C14_Step]_vars
C14_Witness ==
    /\ exitCode = <<0>> /\ NDAYS = 3 /\ parsed = 3 /\ received = 3
    /\ Len(blocksByTimeMulti) = 0 /\ Len(requests) = 3
    /\ stats.done /\ fileA.written /\ fileB.written /\ fileA.rows = <<>>

\* the gaps between consecutive keys of the by-time index
TimeKeys == Ascending(DOMAIN blocksByTime)
Gaps == [i \in 1..(Len(TimeKeys) - 1) |-> TimeKeys[i + 1] - TimeKeys[i]]
RECURSIVE SumSeq(_)
SumSeq(q) == IF q = <<>> THEN 0 ELSE Head(q) + SumSeq(Tail(q))
\* the records received had pairwise different times and heights, the heights
\* rising with the times
StrictlyIncreasingInput ==
    /\ nDupeTimes = 0 /\ nDupeBlockLogs = 0
    /\ \A i, j \in 1..Len(blocksByTimeMulti) :
          i < j => /\ blocksByTimeMulti[i].time < blocksByTimeMulti[j].time
                   /\ blocksByTimeMulti[i].height < blocksByTimeMulti[j].height

C16_Step ==
    /\ DOMAIN blocks \subseteq DOMAIN blocks'
    /\ DOMAIN blocksByTime \subseteq DOMAIN blocksByTime'
    /\ DOMAIN blocksByTime # {} =>
          Min(DOMAIN blocksByTime') <= Min(DOMAIN blocksByTime)
\* C16: no step removes a key from the by-height or the by-time index, and
\* the earliest time of the by-time index never increases.
C16_IndexesOnlyGrow == [][C16_Step]_vars
C16_Witness ==
    /\ parsed = 3 /\ Len(blocksByTimeMulti) = 3
    /\ Cardinality(DOMAIN blocksByTime) = 2 /\ Cardinality(DOMAIN blocks) = 2
    /\ Min(DOMAIN blocksByTime) = 0

\* the deltas the statistics pass computes over the by-time index
SeenDeltas ==
    LET bs == Values(blocksByTime)
    IN  [i \in 1..(Len(bs) - 1) |-> bs[i + 1].time - bs[i].time]
\* C17: the abort for a negative delta never happens: every block of the
\* by-time index is stored under its own time, so every delta between
\* consecutive entries is strictly positive, and a statistics pass that was
\* started has completed.
C17_NegativeDeltaUnreachable ==
    /\ fatalMsg \notin StatsMsgs
    /\ \A t \in DOMAIN blocksByTime : blocksByTime[t].time = t
    /\ \A i \in DOMAIN SeenDeltas : SeenDeltas[i] > 0
    /\ statsRuns >= 1 => stats.done
C17_Witness ==
    /\ stats.done /\ Cardinality(DOMAIN blocksByTime) = 3
    /\ stats.avgNum = 3 /\ exitCode = <<0>>

\* C19: the buffer holds exactly the bytes the reply in flight has delivered
\* so far, in the order of their arrival and each once: it is empty when a
\* request is issued and as long as nothing has arrived, nothing of an earlier
\* page is in it, and what is parsed when the reply completes (the buffer with
\* the last read appended) is the whole body of that reply and nothing else.
C19_BufferIsTheReplyInFlight ==
    /\ Cardinality(inflight) <= 1
    /\ \A r \in inflight : data = rx[r] /\ r = Len(requests)
    /\ inflight = {} => data = <<>>
C19_Witness ==
    /\ parsed = 1 /\ inflight = {2} /\ Len(data) = 2
    /\ data = rx[2] /\ Len(blocksByTimeMulti) = 1

\* C20: the minimum delta reported is 0 whenever the duplicate counter is
\* positive; with a counter of 0 and two or more entries in the by-time index
\* it is the smallest gap between consecutive entries; the maximum is the
\* largest gap; with fewer than two entries the two keep the values they
\* were initialised with (LONG_MAX, or 0 with a positive counter, and -1).
C20_MinMaxOfGaps ==
    stats.done =>
       LET gaps == { Gaps[i] : i \in DOMAIN Gaps }
       IN  /\ nDupeTimes > 0 => stats.min = 0
           /\ nDupeTimes = 0 /\ gaps # {} => stats.min = Min(gaps)
           /\ gaps # {} => stats.max = Max(gaps)
           /\ gaps = {} => /\ stats.max = -1
                           /\ stats.min = IF nDupeTimes > 0 THEN 0 ELSE LONG_MAX
C20_Witness ==
    /\ stats.done /\ nDupeTimes = 0 /\ Cardinality(DOMAIN blocksByTime) = 3
    /\ stats.min = 1 /\ stats.max = 2

Terminated == pc = "done" /\ exitCode \in {<<0>>, <<1>>}
\* Fetch and Parse/Aggregate alternate page by page, Statistics comes after the
\* last page, Export after Statistics, and exit 0 after Export; as long as the
\* program has not ended it is waiting for the one reply in flight.
PhaseOrder ==
    /\ parsed <= Len(requests) /\ Len(requests) <= parsed + 1
    /\ Len(requests) = parsed + 1 <=> inflight # {}
    /\ statsRuns >= 1 => parsed = NDAYS /\ Len(requests) = NDAYS /\ NDAYS >= 1
    /\ fileA.written \/ fileB.written => stats.done /\ statsRuns = 1
    /\ fileB.written => fileA.written
    /\ exitCode = <<0>> => fileB.written
    /\ pc = "loop" => Cardinality(inflight) = 1 /\ exitCode = NotExited
\* C18: if every request issued ends with finished or with an error, every
\* run ends, with exit status 0 or 1, and until then it goes through the
\* phases in their order.  (Without that assumption a run may stay in a state
\* where it waits for the reply in flight: only the callbacks of that reply
\* are enabled there.)
C18_EveryRunTerminates == []PhaseOrder /\ <>Terminated
C18_Witness ==
    /\ Terminated /\ exitCode = <<0>> /\ NDAYS = 2 /\ parsed = 2
    /\ Len(blocksByTimeMulti) = 3 /\ fileB.written

====
